---- MODULE Spec2Model ----
(***************************************************************************)
(* write_half_page (flash.c): copy of 16 32-bit words from a source buffer *)
(* to a destination address by a counting loop.  Memory is one word-       *)
(* addressed array shared by the destination and the source pointers, so   *)
(* the two ranges may alias.  Every load and every store is one step.      *)
(***************************************************************************)
EXTENDS Integers, Sequences, FiniteSets, TLC

\* ------------------------------------------------------------------ bounds
\* number of words of the modelled memory
MemSize == 56
\* number of invocations the caller issues one after the other (SpecSeq)
MaxCalls == 2
\* spacing of the source buffers the callers use in SpecSeq and SpecPreempt
Stride == 8

\* --------------------------------------------------------------- constants
\* the loop bound of line 9: words in a half-page
HalfPageWords == 16
\* uint32_t: a word is the pair <<high half, low half>> of its 16-bit halves
\* a word of erased flash (all bits set, 0xFFFFFFFF)
Erased == <<2^16 - 1, 2^16 - 1>>
\* the word whose value is the small number n
WordOf(n) == <<0, n>>

\* execution contexts that may run the routine (2 is only used by SpecPreempt)
Ctx == {1, 2}
\* start addresses for which a whole half-page lies inside the memory
Addrs == 0 .. (MemSize - HalfPageWords)
\* the source buffers and the (half-page aligned) destinations used by the
\* callers of SpecSeq and SpecPreempt
StrideAddrs == {a \in Addrs : a % Stride = 0}
HalfPages == {a \in Addrs : a % HalfPageWords = 0}
Idx == 0 .. (HalfPageWords - 1)

VARIABLES
    mem,      \* the memory: word address -> uint32_t
    pc,       \* per context: position in write_half_page
    address,  \* per context: first parameter
    words,    \* per context: second parameter
    i,        \* the local counter of line 8, one slot per invocation
    tmp,      \* per context: the value loaded by the right-hand side of line 10
    mem0,     \* (history) per context: the memory when the call was made
    log,      \* (history) per context: the loads and stores of the invocation
    hist      \* (history) the invocations that have returned, in order

vars == <<mem, pc, address, words, i, tmp, mem0, log, hist>>

\* ------------------------------------------------------- the code, line by line
\* storage of the local `i` (line 8): automatic, one per invocation
\* (Slot_shared: the variant with one static counter for all invocations)
Slot_shared(c) == 1
Slot(c) == c

\* `uint32_t i = 0;` (line 8): the value of i on entry, whatever it held before
\* (EntryI_static: the variant that keeps the value of the previous call)
EntryI_static(old) == old
EntryI(old) == 0

\* `i < 16` (line 9)  (LoopCond_short: the variant that stops one word early)
LoopCond_short(n) == n < HalfPageWords - 1
LoopCond(n) == n < HalfPageWords

\* `words + i` (line 10, right-hand side)
\* (SrcAddr_rev: the variant that reads the source backwards)
SrcAddr_rev(w, n) == w + ((HalfPageWords - 1) - n)
SrcAddr(w, n) == w + n

\* `address + i` (line 10, left-hand side)
\* (DstAddr_rev: the variant that fills the destination backwards;
\*  DstAddr_low: the variant that is off by one word)
DstAddr_rev(a, n) == a + ((HalfPageWords - 1) - n)
DstAddr_low(a, n) == a + n - 1
DstAddr(a, n) == a + n

\* `i++` on a uint32_t (line 11); i never exceeds 16, so it cannot wrap
\* (Incr_by2: the variant that skips every other word)
Incr_by2(n) == n + 2
Incr(n) == n + 1

\* the 16 words of a memory image m starting at w
Snapshot(m, w) == [j \in Idx |-> m[w + j]]

\* entry into the function with arguments (A, W): lines 7-8
Enter(c, A, W) ==
    /\ pc' = [pc EXCEPT ![c] = "l9"]
    /\ address' = [address EXCEPT ![c] = A]
    /\ words' = [words EXCEPT ![c] = W]
    /\ i' = [i EXCEPT ![Slot(c)] = EntryI(i[Slot(c)])]
    /\ mem0' = [mem0 EXCEPT ![c] = mem]
    /\ log' = [log EXCEPT ![c] = <<>>]
    /\ UNCHANGED <<mem, tmp, hist>>

\* two half-pages starting at a and b share a word
Overlap(a, b) == a < b + HalfPageWords /\ b < a + HalfPageWords

\* the first invocation of a context, with a destination from As and a source
\* buffer from Ws
Call(c, As, Ws) ==
    /\ pc[c] = "idle"
    /\ \E A \in As, W \in Ws : Enter(c, A, W)

\* an invocation made while the other context may be running one: the callers
\* keep every destination apart from the other destination and from both sources
CallApart(c, As, Ws) ==
    /\ pc[c] = "idle"
    /\ \E A \in As, W \in Ws :
          /\ ~Overlap(A, W)
          /\ \A d \in Ctx \ {c} :
                pc[d] # "idle" =>
                    /\ ~Overlap(A, address[d])
                    /\ ~Overlap(A, words[d])
                    /\ ~Overlap(address[d], W)
          /\ Enter(c, A, W)

\* a further invocation by the same caller, after the previous one returned
CallAgain(c, As, Ws) ==
    /\ pc[c] = "ret"
    /\ Len(hist) < MaxCalls
    /\ \E A \in As, W \in Ws : Enter(c, A, W)

\* `while (i < 16)` (line 9)
\* (Test_checked: the variant that leaves the loop at a destination word that
\*  is not erased)
Test_checked(c) ==
    /\ pc[c] = "l9"
    /\ pc' = [pc EXCEPT ![c] =
                IF LoopCond(i[Slot(c)]) /\ mem[DstAddr(address[c], i[Slot(c)])] = Erased
                THEN "l10" ELSE "l13"]
    /\ UNCHANGED <<mem, address, words, i, tmp, mem0, log, hist>>
Test(c) ==
    /\ pc[c] = "l9"
    /\ pc' = [pc EXCEPT ![c] = IF LoopCond(i[Slot(c)]) THEN "l10" ELSE "l13"]
    /\ UNCHANGED <<mem, address, words, i, tmp, mem0, log, hist>>

\* the load `*(words + i)` of line 10
Load(c) ==
    /\ pc[c] = "l10"
    /\ LET src == SrcAddr(words[c], i[Slot(c)]) IN
         /\ tmp' = [tmp EXCEPT ![c] = mem[src]]
         /\ log' = [log EXCEPT ![c] =
                      Append(@, [op |-> "load", addr |-> src, val |-> mem[src]])]
    /\ pc' = [pc EXCEPT ![c] = "l10s"]
    /\ UNCHANGED <<mem, address, words, i, mem0, hist>>

\* the store `*(address + i) = ...` of line 10
Store(c) ==
    /\ pc[c] = "l10s"
    /\ LET dst == DstAddr(address[c], i[Slot(c)]) IN
         /\ mem' = [mem EXCEPT ![dst] = tmp[c]]
         /\ log' = [log EXCEPT ![c] =
                      Append(@, [op |-> "store", addr |-> dst, val |-> tmp[c]])]
    /\ pc' = [pc EXCEPT ![c] = "l11"]
    /\ UNCHANGED <<address, words, i, tmp, mem0, hist>>

\* `i++;` (line 11) and the jump back to the loop head
Inc(c) ==
    /\ pc[c] = "l11"
    /\ i' = [i EXCEPT ![Slot(c)] = Incr(i[Slot(c)])]
    /\ pc' = [pc EXCEPT ![c] = "l9"]
    /\ UNCHANGED <<mem, address, words, tmp, mem0, log, hist>>

\* the end of the function (line 13): return to the caller, no value
Return(c) ==
    /\ pc[c] = "l13"
    /\ pc' = [pc EXCEPT ![c] = "ret"]
    /\ hist' = Append(hist, [ctx |-> c, address |-> address[c], words |-> words[c],
                             src |-> Snapshot(mem0[c], words[c])])
    /\ UNCHANGED <<mem, address, words, i, tmp, mem0, log>>

\* one step of a running invocation
Step(c) == Test(c) \/ Load(c) \/ Store(c) \/ Inc(c) \/ Return(c)

\* ------------------------------------------------------------ initial states
\* erased flash followed by one RAM half-page holding 0, 1, ..., 15
ErasedImage ==
    [a \in 0 .. (MemSize - 1) |->
        IF a < MemSize - HalfPageWords THEN Erased
        ELSE WordOf(a - (MemSize - HalfPageWords))]
\* pairwise different 32-bit words everywhere
DistinctImage == [a \in 0 .. (MemSize - 1) |-> <<(a * 40503) % 2^16, (2^16 - 1) - a>>]
InitImages == {ErasedImage, DistinctImage}

Init ==
    /\ mem \in InitImages
    /\ pc = [c \in Ctx |-> "idle"]
    /\ address = [c \in Ctx |-> 0]
    /\ words = [c \in Ctx |-> 0]
    /\ i = [c \in Ctx |-> 0]
    /\ tmp = [c \in Ctx |-> WordOf(0)]
    /\ mem0 = [c \in Ctx |-> mem]
    /\ log = [c \in Ctx |-> <<>>]
    /\ hist = <<>>

\* ------------------------------------------------------------ specifications
\* one invocation, any destination and any source inside the memory
Next ==
    \/ Call(1, Addrs, Addrs)
    \/ Step(1)
Spec == Init /\ [][Next]_vars

\* the processor keeps executing a running invocation
FairSpec == Spec /\ WF_vars(Step(1))

\* one caller, several invocations in sequence
NextSeq ==
    \/ Call(1, HalfPages, StrideAddrs)
    \/ CallAgain(1, HalfPages, StrideAddrs)
    \/ Step(1)
SpecSeq == Init /\ [][NextSeq]_vars

\* two invocations interleaved load by load and store by store
NextPreempt ==
    \/ \E c \in Ctx : CallApart(c, HalfPages, StrideAddrs)
    \/ \E c \in Ctx : Step(c)
SpecPreempt == Init /\ [][NextPreempt]_vars

\* ------------------------------------------------------------------ claims
Returned(c) == pc[c] = "ret"
Entered(c) == pc[c] # "idle"
Aligned(a) == a % HalfPageWords = 0
\* the stores of an invocation, in the order they were issued
Stores(c) == SelectSeq(log[c], LAMBDA e : e.op = "store")
\* the destination holds the words the source held when the call was made
DestIsSourceAtCall(c) ==
    \A j \in Idx : mem[address[c] + j] = mem0[c][words[c] + j]
\* the destination starts strictly inside the source range
DestInsideSource(a, w) == w < a /\ a < w + HalfPageWords

\* C1 (as stated): after a call with an aligned destination returns, the word at
\* address + i is the word the source held at index i when the call was made,
\* for every i in 0..15, whatever source buffer was passed.
C1_Original ==
    (Returned(1) /\ Aligned(address[1])) => DestIsSourceAtCall(1)

\* C1 (amended): the same, provided the destination does not start strictly
\* inside the source range (not words < address < words + 16).
C1_Copied ==
    (Returned(1) /\ Aligned(address[1]) /\ ~DestInsideSource(address[1], words[1]))
        => DestIsSourceAtCall(1)

\* erased destination, source 0, 1, ..., 15: the destination ends as 0, 1, ..., 15
C1_Witness ==
    /\ Returned(1)
    /\ Aligned(address[1])
    /\ \A j \in Idx : mem0[1][address[1] + j] = Erased
    /\ \A j \in Idx : mem0[1][words[1] + j] = WordOf(j)
    /\ \A j \in Idx : mem[address[1] + j] = WordOf(j)

\* C2: the stores of one invocation go to index 0, 1, 2, ... in this order, one
\* store per index, and there are exactly 16 of them when the call returns.
C2_StoreOrder ==
    Entered(1) =>
        /\ \A k \in 1 .. Len(Stores(1)) : Stores(1)[k].addr - address[1] = k - 1
        /\ Len(Stores(1)) <= HalfPageWords
        /\ Returned(1) => Len(Stores(1)) = HalfPageWords

C2_Witness ==
    /\ Returned(1)
    /\ Len(Stores(1)) = HalfPageWords
    /\ Stores(1)[1].addr = address[1]
    /\ Stores(1)[HalfPageWords].addr = address[1] + HalfPageWords - 1

\* C3: every invocation runs to completion: once entered it eventually returns,
\* the counter only ever stays or goes up by one (0, 1, ..., 16, never reset),
\* and it returns after exactly 16 passes through the loop body.
C3_RunsToCompletion ==
    /\ Entered(1) ~> Returned(1)
    /\ [][Entered(1) => (i'[1] = i[1] \/ i'[1] = i[1] + 1)]_vars
    /\ [](Returned(1) => (i[1] = HalfPageWords /\ Len(log[1]) = 2 * HalfPageWords))

C3_Witness ==
    /\ Returned(1)
    /\ i[1] = HalfPageWords
    /\ Len(Stores(1)) = HalfPageWords

\* C5: no validation, no status, no early exit: the loads and stores issued are
\* load words+0, store address+0, load words+1, store address+1, ..., each store
\* writing the word just loaded, and the position in the loop depends only on
\* how many of them have been issued; this is so for unaligned destinations and
\* for destinations that are not erased as well.
C5_NoValidation ==
    Entered(1) =>
        /\ \A k \in 1 .. Len(log[1]) :
              IF k % 2 = 1
              THEN /\ log[1][k].op = "load"
                   /\ log[1][k].addr = words[1] + ((k - 1) \div 2)
              ELSE /\ log[1][k].op = "store"
                   /\ log[1][k].addr = address[1] + ((k - 1) \div 2)
                   /\ log[1][k].val = log[1][k - 1].val
        /\ pc[1] \in {"l9", "l11"} => Len(log[1]) % 2 = 0
        /\ pc[1] = "l9" => i[1] = Len(log[1]) \div 2
        /\ pc[1] = "l10" => (i[1] < HalfPageWords /\ Len(log[1]) = 2 * i[1])
        /\ pc[1] = "l10s" => Len(log[1]) = 2 * i[1] + 1
        /\ pc[1] = "l11" => Len(log[1]) = 2 * i[1] + 2
        /\ pc[1] \in {"l13", "ret"} => Len(log[1]) = 2 * HalfPageWords

\* a returned call whose destination was neither aligned nor erased
C5_Witness ==
    /\ Returned(1)
    /\ ~Aligned(address[1])
    /\ \A j \in Idx : mem0[1][address[1] + j] # Erased
    /\ Len(log[1]) = 2 * HalfPageWords

\* C8: frame: all stores go to address+0 .. address+15 and there are 16 of them
\* on return; every other word of the memory keeps its value at every step;
\* when the source does not overlap the destination, the source words are
\* never stored to and hold their original values on return.
C8_Frame ==
    Entered(1) =>
        /\ \A a \in DOMAIN mem :
              (a < address[1] \/ a >= address[1] + HalfPageWords) => mem[a] = mem0[1][a]
        /\ \A k \in 1 .. Len(Stores(1)) :
              /\ Stores(1)[k].addr >= address[1]
              /\ Stores(1)[k].addr < address[1] + HalfPageWords
        /\ Returned(1) => Len(Stores(1)) = HalfPageWords
        /\ ~Overlap(address[1], words[1]) =>
              \A j \in Idx : mem[words[1] + j] = mem0[1][words[1] + j]

C8_Witness ==
    /\ Returned(1)
    /\ ~Overlap(address[1], words[1])
    /\ \A j \in Idx : mem[address[1] + j] # mem0[1][address[1] + j]
    /\ \A j \in Idx : mem[words[1] + j] = mem0[1][words[1] + j]

\* the destination range splits at n: below n it holds the source words, from n
\* on the words it held before the call
FilledUpTo(c, n) ==
    /\ \A j \in Idx : j < n => mem[address[c] + j] = mem0[c][words[c] + j]
    /\ \A j \in Idx : j >= n => mem[address[c] + j] = mem0[c][address[c] + j]

\* C9 (as stated): for non-overlapping source and destination, in every state
\* of an invocation 0 <= i <= 16, the destination words below index i hold the
\* source words and those from index i on hold their values from before the call.
C9_Original ==
    (Entered(1) /\ ~Overlap(address[1], words[1])) =>
        /\ i[1] >= 0 /\ i[1] <= HalfPageWords
        /\ FilledUpTo(1, i[1])

\* C9 (amended): the same with the split at index i in every state except the
\* one between the store of line 10 and the increment of line 11, where the
\* word at index i has been stored too and the split is at i + 1.
C9_Prefix ==
    (Entered(1) /\ ~Overlap(address[1], words[1])) =>
        /\ i[1] >= 0 /\ i[1] <= HalfPageWords
        /\ FilledUpTo(1, IF pc[1] = "l11" THEN i[1] + 1 ELSE i[1])

\* half-way through a call that changes every destination word
C9_Witness ==
    /\ pc[1] = "l11"
    /\ i[1] = HalfPageWords \div 2
    /\ ~Overlap(address[1], words[1])
    /\ \A j \in Idx : mem0[1][address[1] + j] # mem0[1][words[1] + j]
    /\ FilledUpTo(1, i[1] + 1)

\* C10: when the destination lies k words below the source, 0 < k < 16, the
\* destination ends up with the words the source held when the call was made.
C10_OverlapFromBelow ==
    (Returned(1) /\ words[1] - address[1] > 0 /\ words[1] - address[1] < HalfPageWords)
        => DestIsSourceAtCall(1)

\* such a call that has overwritten part of its own source
C10_Witness ==
    /\ Returned(1)
    /\ words[1] - address[1] = 1
    /\ DestIsSourceAtCall(1)
    /\ \E j \in Idx : mem[words[1] + j] # mem0[1][words[1] + j]

\* the last two invocations that returned used the same source buffer and two
\* destinations that overlap neither each other nor the source
SameSourceTwoDests ==
    /\ Len(hist) >= 2
    /\ Returned(1)
    /\ LET h1 == hist[Len(hist) - 1]
           h2 == hist[Len(hist)]
       IN  /\ h1.words = h2.words
           /\ ~Overlap(h1.address, h2.address)
           /\ ~Overlap(h1.address, h1.words)
           /\ ~Overlap(h2.address, h2.words)

\* C4: after two calls in sequence with the same source and two destinations
\* that overlap neither each other nor the source, both destinations hold the
\* 16 source words: the second call issued its 16 stores like a first call and
\* left the first destination intact.
C4_NoHiddenState ==
    SameSourceTwoDests =>
        LET h1 == hist[Len(hist) - 1]
            h2 == hist[Len(hist)]
        IN  /\ \A j \in Idx : mem[h1.address + j] = h1.src[j]
            /\ \A j \in Idx : mem[h2.address + j] = h1.src[j]
            /\ h2.src = h1.src
            /\ Len(Stores(1)) = HalfPageWords

\* both destinations differed from the source before the first call
C4_Witness ==
    /\ SameSourceTwoDests
    /\ Len(hist) = 2
    /\ mem[hist[1].address] = hist[1].src[0]
    /\ mem[hist[2].address] = hist[1].src[0]
    /\ mem0[1][hist[2].address] # hist[1].src[0]
    /\ hist[1].src[0] # hist[1].src[1]

\* the buffers of invocation c are apart from each other and from those of the
\* other invocation: no destination overlaps the other destination or a source
Apart(c) ==
    /\ ~Overlap(address[c], words[c])
    /\ \A d \in Ctx \ {c} :
          Entered(d) =>
              /\ ~Overlap(address[c], address[d])
              /\ ~Overlap(address[c], words[d])
              /\ ~Overlap(address[d], words[c])

\* C7: the routine keeps no state outside the invocation (only its own counter
\* i): when two invocations whose destinations overlap neither each other nor
\* either source are interleaved load by load and store by store, each one
\* progresses as if it ran alone (its destination is filled up to its own
\* counter) and, when it has returned, its destination holds the 16 words of
\* its own source.
C7_Interleaved ==
    \A c \in Ctx :
        (Entered(c) /\ Apart(c)) =>
            /\ FilledUpTo(c, IF pc[c] = "l11" THEN i[c] + 1 ELSE i[c])
            /\ Returned(c) => (i[c] = HalfPageWords /\ DestIsSourceAtCall(c))

\* context 2 was entered after context 1 had stored its first word and has
\* returned before it; the sources differ and both destinations changed
C7_Witness ==
    /\ Returned(1) /\ Returned(2)
    /\ hist[1].ctx = 2
    /\ mem0[2][address[1]] = mem0[1][words[1]]
    /\ words[1] # words[2]
    /\ Apart(1) /\ Apart(2)
    /\ \A c \in Ctx : DestIsSourceAtCall(c)
    /\ \A c \in Ctx : \A j \in Idx : mem[address[c] + j] # mem0[c][address[c] + j]

====
